---- MODULE Spec2Model ----
(***************************************************************************)
(* frostdb, internal/engine/store.go: an in-memory map[string]string       *)
(* guarded by one sync.RWMutex.  Each public method is modelled in the     *)
(* steps a goroutine takes: the call (with Set's key check), the lock      *)
(* acquisition, the map access inside the critical section, and the        *)
(* deferred unlock together with the return.                               *)
(*                                                                         *)
(* A Go map accessed by a writer while another goroutine is inside a       *)
(* critical section is a data race; its outcome is modelled as a           *)
(* nondeterministic choice (update applied or lost, torn read, runtime     *)
(* crash).  With the locking as written no such state is reachable.        *)
(***************************************************************************)
EXTENDS Integers, Sequences, FiniteSets, TLC

\* -------------------------------------------------------------------------
\* Bounds of the model
\* -------------------------------------------------------------------------

\* Goroutines calling the store in the general specification.
NumCallers == 2

\* Total number of calls made in the general specification.
MaxCalls == 3

\* TestConcurrentWrites, scaled down: goroutines and writes per goroutine.
NumGoroutines == 3

WritesPerGoroutine == 2

\* TestConcurrentReadWrite, scaled down: writers, readers, and the keys
\* each of them goes through.
NumWriters == 2

NumReaders == 2

NumOps == 1

\* Goroutines calling the store in the progress specification.
NumLiveCallers == 3

\* Keys and values the callers of the general specification pass in.
KeySpace == {"", "a", "b"}

ValueSpace == {"", "v1"}

\* A value no Set wrote: what a read racing with a write may see.
Torn == "<torn>"

\* The argument slot of an operation that takes no key or no value.
NoArg == "<none>"

None == 0

\* -------------------------------------------------------------------------
\* The map and the method bodies, as pure functions of the map
\* -------------------------------------------------------------------------

\* make(map[string]string)
EmptyMap == [k \in {} |-> ""]

\* NewStore: an empty map, the zero RWMutex.
NewStore == [data |-> EmptyMap,
             mu   |-> [writer |-> None, readers |-> {}, rwait |-> {}]]

\* Faulty variant: the key check is missing.
InvalidKeyUnchecked(key) == FALSE

\* Faulty variant: the check is len(key) <= 1.
InvalidKeyShort(key) == key \in {"", "a", "b"}

\* Set, line 23: the key check made before the lock is taken.
InvalidKey(key) == key = ""

\* Faulty variant: Set writes into a map of its own
\* (s.data = map[string]string{key: value}).
SetDataFresh(d, key, value) == [j \in {key} |-> value]

\* Faulty variant: Set inserts a new key and leaves a present key as it is.
SetDataInsertOnly(d, key, value) ==
    [j \in (DOMAIN d) \cup {key} |-> IF j \in DOMAIN d THEN d[j] ELSE value]

\* Set, line 30: s.data[key] = value
SetData(d, key, value) ==
    [j \in (DOMAIN d) \cup {key} |-> IF j = key THEN value ELSE d[j]]

\* Faulty variant: presence is read off the value (return value, value != "").
GetResultByValue(d, key) ==
    IF key \in DOMAIN d
    THEN [value |-> d[key], found |-> d[key] # ""]
    ELSE [value |-> "", found |-> FALSE]

\* Get, lines 39-40: value, exists := s.data[key]
GetResult(d, key) ==
    IF key \in DOMAIN d
    THEN [value |-> d[key], found |-> TRUE]
    ELSE [value |-> "", found |-> FALSE]

\* Delete, lines 48 and 52: _, exists := s.data[key]; return exists
DeleteResult(d, key) == [removed |-> key \in DOMAIN d]

\* Faulty variant: the entry is looked up and never deleted.
DeleteDataKept(d, key) == d

\* Delete, lines 49-51: if exists { delete(s.data, key) }
DeleteData(d, key) ==
    IF key \in DOMAIN d
    THEN [j \in (DOMAIN d) \ {key} |-> d[j]]
    ELSE d

\* Exists, lines 60-61
ExistsResult(d, key) == [exists |-> key \in DOMAIN d]

\* Faulty variant: the new map is assigned to a local variable (data := make(...)).
ClearDataShadowed(d) == d

\* Clear, line 81: s.data = make(map[string]string)
ClearData(d) == EmptyMap

\* Size, line 89: len(s.data)
SizeResult(d) == [size |-> Cardinality(DOMAIN d)]

\* All orders in which `range` may visit the keys of S.
RECURSIVE Orders(_)
Orders(S) ==
    IF S = {} THEN {<<>>}
    ELSE UNION {{<<k>> \o rest : rest \in Orders(S \ {k})} : k \in S}

\* Faulty variant: make([]string, len(s.data)): the slice starts with len(s.data)
\* empty strings and the keys are appended after them.
KeysMakeFilled(d) == [i \in 1..Cardinality(DOMAIN d) |-> ""]

\* Keys, line 69: make([]string, 0, len(s.data)): the initial contents.
KeysMake(d) == <<>>

\* Keys, lines 69-73: the slice built by appending every key the range
\* statement yields, in any order.
KeysSeqs(d) == {KeysMake(d) \o o : o \in Orders(DOMAIN d)}

\* Faulty variant: Delete takes the read lock (s.mu.RLock()).
LockModeDeleteShared(o) ==
    IF o \in {"Set", "Clear"} THEN "W" ELSE "R"

\* Faulty variant: Clear takes no lock.
LockModeClearUnlocked(o) ==
    IF o \in {"Set", "Delete"} THEN "W"
    ELSE IF o = "Clear" THEN "none" ELSE "R"

\* Faulty variant: Keys takes no lock.
LockModeKeysUnlocked(o) ==
    IF o \in {"Set", "Delete", "Clear"} THEN "W"
    ELSE IF o = "Keys" THEN "none" ELSE "R"

\* Faulty variant: Set takes no lock.
LockModeSetUnlocked(o) ==
    IF o = "Set" THEN "none"
    ELSE IF o \in {"Delete", "Clear"} THEN "W" ELSE "R"

\* Faulty variant: Set takes the read lock (s.mu.RLock()).
LockModeSetShared(o) ==
    IF o \in {"Delete", "Clear"} THEN "W" ELSE "R"

\* Faulty variant: every method takes the read lock.
LockModeAllShared(o) == "R"

\* Which lock each method takes: Lock (lines 27, 45, 78), RLock (lines 36,
\* 57, 66, 86).
LockMode(o) ==
    IF o \in {"Set", "Delete", "Clear"} THEN "W" ELSE "R"

\* The methods that write the map.
IsWrite(o) == o \in {"Set", "Delete", "Clear"}

VARIABLES
    data,      \* Store.data
    mu,        \* Store.mu: writer (pending or holding), readers, blocked readers
    pc,        \* per goroutine: where it is in its call
    call,      \* per goroutine: the method called and its arguments
    ret,       \* per goroutine: the slice it holds of its latest Keys(), if any
    calls,     \* calls made so far, by all goroutines
    iter,      \* per goroutine: the loop variable j of the test's goroutine
    arrays,    \* the backing arrays of the slices Keys returned
    crashed,   \* the runtime aborted the process (concurrent map access)
    last,      \* history: the most recent map access, in lock order
    prev,      \* history: the access before it
    abs,       \* history: the sequential map specification's state
    written    \* history: the <<key, value>> arguments of the Sets that wrote

vars == <<data, mu, pc, call, ret, calls, iter, arrays, crashed, last, prev, abs,
          written>>

Procs == DOMAIN pc

NoCall == [op |-> "none", key |-> NoArg, value |-> NoArg]

\* No value: the goroutine holds no slice.
NoRet == [none |-> TRUE]

NoAccess == [op |-> "none"]

InitFor(P) ==
    /\ data = NewStore.data
    /\ mu = NewStore.mu
    /\ pc = [t \in P |-> "idle"]
    /\ call = [t \in P |-> NoCall]
    /\ ret = [t \in P |-> NoRet]
    /\ calls = 0
    /\ iter = [t \in P |-> 0]
    /\ arrays = [a \in (P \cup {None}) \X {0, 1} |-> <<>>]
    /\ crashed = FALSE
    /\ last = NoAccess
    /\ prev = NoAccess
    /\ abs = EmptyMap
    /\ written = {}


\* -------------------------------------------------------------------------
\* The sequential map specification (spec.md, section 4.1), kept beside
\* the store as history: the reference the store's results are compared to
\* -------------------------------------------------------------------------

SeqMap(c, m) ==
    CASE c.op = "Set" ->
            IF c.key = "" THEN m
            ELSE [j \in (DOMAIN m) \cup {c.key} |->
                     IF j = c.key THEN c.value ELSE m[j]]
      [] c.op = "Delete" -> [j \in (DOMAIN m) \ {c.key} |-> m[j]]
      [] c.op = "Clear" -> [j \in {} |-> ""]
      [] OTHER -> m

SeqResult(c, m) ==
    CASE c.op = "Set" -> [err |-> c.key = ""]
      [] c.op = "Get" ->
            IF c.key \in DOMAIN m
            THEN [value |-> m[c.key], found |-> TRUE]
            ELSE [found |-> FALSE]
      [] c.op = "Delete" -> [removed |-> c.key \in DOMAIN m]
      [] c.op = "Exists" -> [exists |-> c.key \in DOMAIN m]
      [] c.op = "Keys" -> [keyset |-> DOMAIN m]
      [] c.op = "Clear" -> [void |-> TRUE]
      [] OTHER -> [size |-> Cardinality(DOMAIN m)]

\* The elements of a sequence, and whether it lists S without repetition.
Range(s) == {s[i] : i \in 1..Len(s)}

ListsExactly(s, S) == Range(s) = S /\ Len(s) = Cardinality(S)

\* A result of the store agrees with the sequential specification's: the
\* specification fixes neither the order of Keys nor the value Get returns
\* with found = false.
Conforms(res, spec) ==
    IF "keyset" \in DOMAIN spec
    THEN "keys" \in DOMAIN res /\ ListsExactly(res.keys, spec.keyset)
    ELSE IF "found" \in DOMAIN spec /\ ~spec.found
    THEN "found" \in DOMAIN res /\ ~res.found
    ELSE res = spec

\* -------------------------------------------------------------------------
\* Critical sections and data races
\* -------------------------------------------------------------------------

\* Goroutine u is between its lock acquisition and its unlock.
InCritical(u) == pc[u] \in {"crit", "unlock"}

\* The map access of t overlaps an access it is not synchronised with: a
\* write overlapping any access, a read overlapping a write.
Racing(t) ==
    \E u \in Procs \ {t} :
        /\ InCritical(u)
        /\ IsWrite(call[t].op) \/ IsWrite(call[u].op)

\* Keys the map may hold while accesses race.
RaceKeys ==
    (DOMAIN data) \cup {call[u].key : u \in {w \in Procs : InCritical(w)}}

\* The outcomes of a write access that should leave the map as m and
\* return res.
WriteOutcomes(t, m, res) ==
    IF Racing(t)
    THEN {[data |-> x, res |-> res, crash |-> c] :
             x \in {m, data}, c \in BOOLEAN}
    ELSE {[data |-> m, res |-> res, crash |-> FALSE]}

\* Faulty variant: a lookup that misses leaves the zero value under the key
\* it looked up.
ReadOutcomesInserting(t, exact, torn) ==
    {[data |-> IF call[t].key = NoArg \/ call[t].key \in DOMAIN data
               THEN data
               ELSE SetData(data, call[t].key, ""),
      res |-> r, crash |-> FALSE] : r \in exact}

\* The outcomes of a read access whose results are `exact` when it is
\* synchronised and may be any of `torn` when it races.
ReadOutcomes(t, exact, torn) ==
    IF Racing(t)
    THEN {[data |-> data, res |-> r, crash |-> c] :
             r \in exact \cup torn, c \in BOOLEAN}
    ELSE {[data |-> data, res |-> r, crash |-> FALSE] : r \in exact}

\* -------------------------------------------------------------------------
\* sync.RWMutex as store.go uses it
\* -------------------------------------------------------------------------

\* s.mu.Lock() by t: one writer at a time gets past the mutex's inner
\* writer lock and announces itself, which stops new readers; it holds the
\* lock at once when no reader does ("crit") and otherwise waits for the
\* readers to leave ("LockWait").  A second writer parks ("Lock").
LockStep(m, t) ==
    IF m.writer = None
    THEN [mu |-> [m EXCEPT !.writer = t],
          pc |-> IF m.readers = {} THEN "crit" ELSE "LockWait"]
    ELSE [mu |-> m, pc |-> "Lock"]

\* The readers an Unlock has released a token of the reader semaphore for
\* and that have not run on yet: they count as readers, their tokens are
\* still in the semaphore.
Woken(m) == {g \in m.readers : pc[g] = "RLockWait"}

\* s.mu.RLock() by t, the possible outcomes: a reader enters unless a
\* writer holds or awaits the lock; then it goes to the reader semaphore.
\* With no token in it, t parks until an Unlock admits it ("RLockWait").
\* With the token an earlier Unlock released for a reader g that has not
\* run on yet, t takes the token and enters in g's place, and g parks
\* again.
RLockStep(m, t) ==
    IF m.writer = None
    THEN {[mu |-> [m EXCEPT !.readers = @ \cup {t}], pc |-> "crit"]}
    ELSE IF Woken(m) = {}
    THEN {[mu |-> [m EXCEPT !.rwait = @ \cup {t}], pc |-> "RLockWait"]}
    ELSE {[mu |-> [m EXCEPT !.readers = (@ \ {g}) \cup {t},
                             !.rwait = @ \cup {g}],
            pc |-> "crit"] : g \in Woken(m)}

\* The first lock instruction of method o, executed by t on entry: its
\* possible outcomes.
EntryStep(m, t, o) ==
    CASE LockMode(o) = "W" -> {LockStep(m, t)}
      [] LockMode(o) = "R" -> RLockStep(m, t)
      [] OTHER -> {[mu |-> m, pc |-> "crit"]}

\* Faulty variant: Set, Delete and Clear return without s.mu.Unlock().
ReleaseNoUnlock(m, t, mode) ==
    CASE mode = "R" -> [m EXCEPT !.readers = @ \ {t}]
      [] OTHER -> m

\* Faulty variant: the read-only methods return without s.mu.RUnlock().
ReleaseNoRUnlock(m, t, mode) ==
    CASE mode = "W" -> [writer |-> None, readers |-> m.rwait, rwait |-> {}]
      [] OTHER -> m

\* The mutex after the deferred Unlock / RUnlock of t: Unlock admits the
\* readers that parked behind the writer.
Release(m, t, mode) ==
    CASE mode = "W" -> [writer |-> None, readers |-> m.rwait, rwait |-> {}]
      [] mode = "R" -> [m EXCEPT !.readers = @ \ {t}]
      [] OTHER -> m

\* What goroutine t holds once a call has returned r: a scalar is copied
\* out and leaves the model, so t holds what it held; a slice replaces the
\* one t held (k = store.Keys()) and goes on referring to its backing array.
Returned(t, r) == IF "keys" \in DOMAIN r THEN r ELSE ret[t]

\* A parked writer gets past the inner writer lock.
Lock(t) ==
    /\ ~crashed
    /\ pc[t] = "Lock"
    /\ mu.writer = None
    /\ mu' = LockStep(mu, t).mu
    /\ pc' = [pc EXCEPT ![t] = LockStep(mu, t).pc]
    /\ UNCHANGED <<data, call, ret, calls, iter, arrays, crashed, last, prev, abs, written>>

\* The announced writer holds the lock once the last reader has left.
LockWait(t) ==
    /\ ~crashed
    /\ pc[t] = "LockWait"
    /\ mu.readers = {}
    /\ pc' = [pc EXCEPT ![t] = "crit"]
    /\ UNCHANGED <<data, mu, call, ret, calls, iter, arrays, crashed, last, prev, abs, written>>

\* A parked reader runs on with the token an Unlock released for it.
RLockWait(t) ==
    /\ ~crashed
    /\ pc[t] = "RLockWait"
    /\ t \in mu.readers
    /\ pc' = [pc EXCEPT ![t] = "crit"]
    /\ UNCHANGED <<data, mu, call, ret, calls, iter, arrays, crashed, last, prev, abs, written>>

\* defer s.mu.Unlock() and the return of Set, Delete, Clear.
Unlock(t) ==
    /\ ~crashed
    /\ pc[t] = "unlock"
    /\ LockMode(call[t].op) # "R"
    /\ mu' = Release(mu, t, LockMode(call[t].op))
    /\ pc' = [pc EXCEPT ![t] = "idle"]
    /\ call' = [call EXCEPT ![t] = NoCall]
    /\ UNCHANGED <<data, ret, calls, iter, arrays, crashed, last, prev, abs, written>>

\* defer s.mu.RUnlock() and the return of Get, Exists, Keys, Size.
RUnlock(t) ==
    /\ ~crashed
    /\ pc[t] = "unlock"
    /\ LockMode(call[t].op) = "R"
    /\ mu' = Release(mu, t, "R")
    /\ pc' = [pc EXCEPT ![t] = "idle"]
    /\ call' = [call EXCEPT ![t] = NoCall]
    /\ UNCHANGED <<data, ret, calls, iter, arrays, crashed, last, prev, abs, written>>


\* -------------------------------------------------------------------------
\* The calls
\* -------------------------------------------------------------------------

\* History: the access of call c with result res is the newest in lock
\* order (res: what the store computed, spec: what the sequential
\* specification computes, pre: the map before the access); the
\* sequential specification takes the same step.
Record(c, res) ==
    /\ prev' = last
    /\ last' = [op |-> c.op, key |-> c.key, value |-> c.value, res |-> res,
                spec |-> SeqResult(c, abs), pre |-> data]
    /\ abs' = SeqMap(c, abs)
    /\ written' = IF c.op = "Set" /\ ~res.err
                  THEN written \cup {<<c.key, c.value>>}
                  ELSE written

\* Goroutine t calls a method and executes its lock instruction; it goes
\* on holding the slice an earlier Keys() returned to it.
Enter(t, c) ==
    /\ ~crashed
    /\ pc[t] = "idle"
    /\ call' = [call EXCEPT ![t] = c]
    /\ \E e \in EntryStep(mu, t, c.op) :
          /\ mu' = e.mu
          /\ pc' = [pc EXCEPT ![t] = e.pc]
    /\ UNCHANGED <<data, ret, arrays, crashed, last, prev, abs, written>>

\* The map access of t ends with outcome o and leaves r to be returned.
Commit(t, o, r) ==
    /\ data' = o.data
    /\ crashed' = o.crash
    /\ ret' = [ret EXCEPT ![t] = Returned(t, r)]
    /\ pc' = [pc EXCEPT ![t] = "unlock"]
    /\ Record(call[t], o.res)
    /\ UNCHANGED <<mu, call, calls, iter>>

\* Set, lines 22-26: an empty key returns the error at once, without
\* touching the lock or the map; any other key goes on to s.mu.Lock().
Set(t, key, value) ==
    IF InvalidKey(key)
    THEN /\ ~crashed
         /\ pc[t] = "idle"
         /\ Record([op |-> "Set", key |-> key, value |-> value], [err |-> TRUE])
         /\ UNCHANGED <<data, mu, pc, call, ret, arrays, crashed>>
    ELSE Enter(t, [op |-> "Set", key |-> key, value |-> value])

\* Set, line 30, under the lock; line 31 returns nil.
SetWrite(t) ==
    /\ ~crashed
    /\ pc[t] = "crit"
    /\ call[t].op = "Set"
    /\ \E o \in WriteOutcomes(t, SetData(data, call[t].key, call[t].value),
                              [err |-> FALSE]) :
          Commit(t, o, o.res)
    /\ UNCHANGED arrays

Get(t, key) == Enter(t, [op |-> "Get", key |-> key, value |-> NoArg])

\* Get, lines 39-40, under the read lock.
GetRead(t) ==
    /\ ~crashed
    /\ pc[t] = "crit"
    /\ call[t].op = "Get"
    /\ \E o \in ReadOutcomes(t, {GetResult(data, call[t].key)},
                             {[value |-> v, found |-> f] :
                                 v \in ValueSpace \cup {Torn}, f \in BOOLEAN}) :
          Commit(t, o, o.res)
    /\ UNCHANGED arrays

Delete(t, key) == Enter(t, [op |-> "Delete", key |-> key, value |-> NoArg])

\* Delete, lines 48-52, under the lock.
DeleteWrite(t) ==
    /\ ~crashed
    /\ pc[t] = "crit"
    /\ call[t].op = "Delete"
    /\ \E o \in WriteOutcomes(t, DeleteData(data, call[t].key),
                              DeleteResult(data, call[t].key)) :
          Commit(t, o, o.res)
    /\ UNCHANGED arrays

Exists(t, key) == Enter(t, [op |-> "Exists", key |-> key, value |-> NoArg])

\* Exists, lines 60-61, under the read lock.
ExistsRead(t) ==
    /\ ~crashed
    /\ pc[t] = "crit"
    /\ call[t].op = "Exists"
    /\ \E o \in ReadOutcomes(t, {ExistsResult(data, call[t].key)},
                             {[exists |-> f] : f \in BOOLEAN}) :
          Commit(t, o, o.res)
    /\ UNCHANGED arrays

Keys(t) == Enter(t, [op |-> "Keys", key |-> NoArg, value |-> NoArg])

\* Faulty variant: every call builds the slice in one array the store keeps.
KeysAllocShared(t) == <<None, 0>>

\* Keys, line 69: make allocates a backing array of its own for the call
\* of goroutine t, one that no slice t holds refers to (arrays are named
\* <<goroutine, 0 or 1>>; the arrays of None are never allocated).
KeysAlloc(t) ==
    IF "keys" \in DOMAIN ret[t] /\ ret[t].keys.ptr = <<t, 0>>
    THEN <<t, 1>>
    ELSE <<t, 0>>

\* The contents of a slice: the first len elements of its backing array.
SliceValue(sl) == SubSeq(arrays[sl.ptr], 1, sl.len)

\* Keys, lines 69-73, under the read lock: the slice is built in an array
\* allocated by this call and returned as (pointer, length); the array of
\* the slice t held before is referred to no more.
KeysRead(t) ==
    /\ ~crashed
    /\ pc[t] = "crit"
    /\ call[t].op = "Keys"
    /\ \E o \in ReadOutcomes(t, {[keys |-> s] : s \in KeysSeqs(data)},
                             {[keys |-> s] :
                                 s \in UNION {Orders(S) : S \in SUBSET RaceKeys}}) :
          /\ Commit(t, o, [keys |-> [ptr |-> KeysAlloc(t), len |-> Len(o.res.keys)]])
          /\ arrays' = [a \in DOMAIN arrays |->
                           IF a = KeysAlloc(t) THEN o.res.keys
                           ELSE IF a[1] = t THEN <<>>
                           ELSE arrays[a]]

Clear(t) == Enter(t, [op |-> "Clear", key |-> NoArg, value |-> NoArg])

\* Clear, line 81, under the lock.
ClearWrite(t) ==
    /\ ~crashed
    /\ pc[t] = "crit"
    /\ call[t].op = "Clear"
    /\ \E o \in WriteOutcomes(t, ClearData(data), [void |-> TRUE]) :
          Commit(t, o, o.res)
    /\ UNCHANGED arrays

Size(t) == Enter(t, [op |-> "Size", key |-> NoArg, value |-> NoArg])

\* Size, line 89, under the read lock.
SizeRead(t) ==
    /\ ~crashed
    /\ pc[t] = "crit"
    /\ call[t].op = "Size"
    /\ \E o \in ReadOutcomes(t, {SizeResult(data)},
                             {[size |-> n] : n \in 0..Cardinality(RaceKeys)}) :
          Commit(t, o, o.res)
    /\ UNCHANGED arrays

\* -------------------------------------------------------------------------
\* The general specification: NumCallers goroutines make MaxCalls calls in
\* all, of any method with any arguments, in any interleaving
\* -------------------------------------------------------------------------

Callers == 1..NumCallers

Init == InitFor(Callers)

\* One more call is made.
Call == calls < MaxCalls /\ calls' = calls + 1 /\ UNCHANGED iter

Next ==
    \/ \E t \in Callers, k \in KeySpace, v \in ValueSpace : Call /\ Set(t, k, v)
    \/ \E t \in Callers, k \in KeySpace : Call /\ Get(t, k)
    \/ \E t \in Callers, k \in KeySpace : Call /\ Delete(t, k)
    \/ \E t \in Callers, k \in KeySpace : Call /\ Exists(t, k)
    \/ \E t \in Callers : Call /\ Keys(t)
    \/ \E t \in Callers : Call /\ Clear(t)
    \/ \E t \in Callers : Call /\ Size(t)
    \/ \E t \in Callers : Lock(t)
    \/ \E t \in Callers : LockWait(t)
    \/ \E t \in Callers : RLockWait(t)
    \/ \E t \in Callers : SetWrite(t)
    \/ \E t \in Callers : GetRead(t)
    \/ \E t \in Callers : DeleteWrite(t)
    \/ \E t \in Callers : ExistsRead(t)
    \/ \E t \in Callers : KeysRead(t)
    \/ \E t \in Callers : ClearWrite(t)
    \/ \E t \in Callers : SizeRead(t)
    \/ \E t \in Callers : Unlock(t)
    \/ \E t \in Callers : RUnlock(t)

Spec == Init /\ [][Next]_vars

\* -------------------------------------------------------------------------
\* TestConcurrentWrites (store_test.go, lines 188-213): NumGoroutines
\* goroutines, each setting WritesPerGoroutine keys of its own
\* -------------------------------------------------------------------------

Digits == <<"0", "1", "2", "3", "4", "5", "6", "7", "8", "9">>

\* fmt.Sprintf("%d", n)
RECURSIVE Itoa(_)
Itoa(n) == IF n < 10 THEN Digits[n + 1] ELSE Itoa(n \div 10) \o Digits[(n % 10) + 1]

\* Lines 200-201: the key and the value goroutine id writes in round j.
WriterKey(id, j) == "key-" \o Itoa(id) \o "-" \o Itoa(j)

WriterValue(id, j) == "value-" \o Itoa(id) \o "-" \o Itoa(j)

Goroutines == 1..NumGoroutines

InitWriters == InitFor(Goroutines)

\* Lines 199-203: one round of the goroutine's loop.
WriterSet(t) ==
    /\ iter[t] < WritesPerGoroutine
    /\ Set(t, WriterKey(t, iter[t]), WriterValue(t, iter[t]))
    /\ iter' = [iter EXCEPT ![t] = @ + 1]
    /\ calls' = calls + 1

\* Line 207, wg.Wait(): every goroutine has left its loop.
WritersDone ==
    \A t \in Procs : iter[t] = WritesPerGoroutine /\ pc[t] = "idle"

NextWriters ==
    \/ \E t \in Goroutines : WriterSet(t)
    \/ \E t \in Goroutines : Lock(t)
    \/ \E t \in Goroutines : SetWrite(t)
    \/ \E t \in Goroutines : Unlock(t)

SpecWriters == InitWriters /\ [][NextWriters]_vars

\* -------------------------------------------------------------------------
\* TestConcurrentReadWrite (store_test.go, lines 249-284): NumWriters
\* goroutines set the same NumOps keys, each to values of its own, while
\* NumReaders goroutines get those keys
\* -------------------------------------------------------------------------

\* Lines 259-260 and 272: the key of round j, the value writer id sets.
RWKey(j) == "key-" \o Itoa(j)

RWValue(id, j) == "value-" \o Itoa(id) \o "-" \o Itoa(j)

\* The goroutines started at lines 254-264 and at lines 267-276.
Writers == 1..NumWriters

Readers == (NumWriters + 1)..(NumWriters + NumReaders)

\* Lines 256 and 263, go func(id int) {...}(i): the id of writer goroutine t.
WriterId(t) == t - 1

InitReadWrite == InitFor(Writers \cup Readers)

\* Lines 258-262: one round of a writer's loop.
WriterRound(t) ==
    /\ iter[t] < NumOps
    /\ Set(t, RWKey(iter[t]), RWValue(WriterId(t), iter[t]))
    /\ iter' = [iter EXCEPT ![t] = @ + 1]
    /\ calls' = calls + 1

\* Lines 271-274: one round of a reader's loop.
ReaderRound(t) ==
    /\ iter[t] < NumOps
    /\ Get(t, RWKey(iter[t]))
    /\ iter' = [iter EXCEPT ![t] = @ + 1]
    /\ calls' = calls + 1

\* Every writer has left its loop (wg.Wait() at line 278 waits for that).
WritersFinished ==
    \A t \in Writers : iter[t] = NumOps /\ pc[t] = "idle"

NextReadWrite ==
    \/ \E t \in Writers : WriterRound(t)
    \/ \E t \in Readers : ReaderRound(t)
    \/ \E t \in Writers : Lock(t)
    \/ \E t \in Writers : LockWait(t)
    \/ \E t \in Readers : RLockWait(t)
    \/ \E t \in Writers : SetWrite(t)
    \/ \E t \in Readers : GetRead(t)
    \/ \E t \in Writers : Unlock(t)
    \/ \E t \in Readers : RUnlock(t)

SpecReadWrite == InitReadWrite /\ [][NextReadWrite]_vars

\* -------------------------------------------------------------------------
\* Keys() against the mutators: NumCallers goroutines make MaxKeysCalls
\* calls in all of Keys, Set, Delete and Clear, in any interleaving
\* -------------------------------------------------------------------------

\* Total number of calls made in this specification.
MaxKeysCalls == 4

\* The keys set and deleted, and the value set.
CopyKeys == {"a", "b"}

CopyValue == "v1"

KeysCall == calls < MaxKeysCalls /\ calls' = calls + 1 /\ UNCHANGED iter

NextKeys ==
    \/ \E t \in Callers, k \in CopyKeys : KeysCall /\ Set(t, k, CopyValue)
    \/ \E t \in Callers, k \in CopyKeys : KeysCall /\ Delete(t, k)
    \/ \E t \in Callers : KeysCall /\ Clear(t)
    \/ \E t \in Callers : KeysCall /\ Keys(t)
    \/ \E t \in Callers : Lock(t)
    \/ \E t \in Callers : LockWait(t)
    \/ \E t \in Callers : RLockWait(t)
    \/ \E t \in Callers : SetWrite(t)
    \/ \E t \in Callers : DeleteWrite(t)
    \/ \E t \in Callers : ClearWrite(t)
    \/ \E t \in Callers : KeysRead(t)
    \/ \E t \in Callers : Unlock(t)
    \/ \E t \in Callers : RUnlock(t)

SpecKeys == Init /\ [][NextKeys]_vars

\* -------------------------------------------------------------------------
\* The lock discipline: NumCallers goroutines make MaxCalls calls in all,
\* of any method, in any interleaving.  The arguments matter to the lock
\* only through Set's key check: the empty key, one other key, one value
\* -------------------------------------------------------------------------

LockKeys == {"", "a"}

LockValue == "v1"

NextLocks ==
    \/ \E t \in Callers, k \in LockKeys : Call /\ Set(t, k, LockValue)
    \/ \E t \in Callers, k \in LockKeys : Call /\ Get(t, k)
    \/ \E t \in Callers, k \in LockKeys : Call /\ Delete(t, k)
    \/ \E t \in Callers, k \in LockKeys : Call /\ Exists(t, k)
    \/ \E t \in Callers : Call /\ Keys(t)
    \/ \E t \in Callers : Call /\ Clear(t)
    \/ \E t \in Callers : Call /\ Size(t)
    \/ \E t \in Callers : Lock(t)
    \/ \E t \in Callers : LockWait(t)
    \/ \E t \in Callers : RLockWait(t)
    \/ \E t \in Callers : SetWrite(t)
    \/ \E t \in Callers : GetRead(t)
    \/ \E t \in Callers : DeleteWrite(t)
    \/ \E t \in Callers : ExistsRead(t)
    \/ \E t \in Callers : KeysRead(t)
    \/ \E t \in Callers : ClearWrite(t)
    \/ \E t \in Callers : SizeRead(t)
    \/ \E t \in Callers : Unlock(t)
    \/ \E t \in Callers : RUnlock(t)

SpecLocks == Init /\ [][NextLocks]_vars

\* -------------------------------------------------------------------------
\* Progress: NumLiveCallers goroutines go on calling the store for ever, in
\* any interleaving, under a fair scheduler.  Set stands for the methods
\* that take s.mu.Lock(), Get for those that take s.mu.RLock(): the lock
\* steps of a method depend on nothing but that
\* -------------------------------------------------------------------------

LiveCallers == 1..NumLiveCallers

InitLive == InitFor(LiveCallers)

\* The keys and the value passed in.
LiveKeys == {"a"}

LiveValue == "v1"

\* The calls of this specification are not counted: there is no last one.
LiveCall == UNCHANGED <<calls, iter>>

NextLive ==
    \/ \E t \in LiveCallers, k \in LiveKeys : LiveCall /\ Set(t, k, LiveValue)
    \/ \E t \in LiveCallers, k \in LiveKeys : LiveCall /\ Get(t, k)
    \/ \E t \in LiveCallers : Lock(t)
    \/ \E t \in LiveCallers : LockWait(t)
    \/ \E t \in LiveCallers : RLockWait(t)
    \/ \E t \in LiveCallers : SetWrite(t)
    \/ \E t \in LiveCallers : GetRead(t)
    \/ \E t \in LiveCallers : Unlock(t)
    \/ \E t \in LiveCallers : RUnlock(t)

\* The steps of goroutine t inside a call, but for the Lock of a parked
\* writer.
Step(t) ==
    \/ LockWait(t)
    \/ RLockWait(t)
    \/ SetWrite(t)
    \/ GetRead(t)
    \/ DeleteWrite(t)
    \/ ExistsRead(t)
    \/ KeysRead(t)
    \/ ClearWrite(t)
    \/ SizeRead(t)
    \/ Unlock(t)
    \/ RUnlock(t)

\* The scheduler runs every goroutine that stays runnable.  A writer parked
\* on the mutex gets it in the end although others may take it first (the
\* mutex hands itself to a waiter that has waited long: starvation mode of
\* sync.Mutex).  The reader semaphore has no such rule: a woken reader that
\* finds its token taken parks again.  Nothing makes a caller call.
Fairness == \A t \in LiveCallers : WF_vars(Step(t)) /\ SF_vars(Lock(t))

SpecLive == InitLive /\ [][NextLive]_vars /\ Fairness

\* -------------------------------------------------------------------------
\* Properties
\* -------------------------------------------------------------------------

Mutators == {"Set", "Delete", "Clear"}

ReadOnly == {"Get", "Exists", "Keys", "Size"}

\* The previous access was a successful Set.
PrevSetOk == prev.op = "Set" /\ ~prev.res.err

\* The last two accesses, in lock order, were on the same key.
SameKey == last.key = prev.key

\* C1: for a non-empty key k, a Get(k) that directly follows a successful
\* Set(k, v) returns (v, true), and an Exists(k) that directly follows it
\* returns true.
C1_SetThenGet ==
    PrevSetOk =>
        /\ (last.op = "Get" /\ SameKey =>
               last.res = [value |-> prev.value, found |-> TRUE])
        /\ (last.op = "Exists" /\ SameKey => last.res.exists)

C1_Witness ==
    /\ PrevSetOk
    /\ last.op = "Get"
    /\ SameKey
    /\ last.res.found
    /\ last.res.value = ""

\* C2: Set with the empty key returns an error and leaves the map as it
\* was, whatever the value and the store state.
C2_EmptyKeyRejected ==
    last.op = "Set" /\ last.key = "" =>
        /\ last.res.err
        /\ data = last.pre

C2_Witness ==
    /\ last.op = "Set"
    /\ last.key = ""
    /\ last.res.err
    /\ data # EmptyMap
    /\ \E t \in Procs : pc[t] # "idle"

\* C3: Delete(k) of an absent key returns false and leaves the map as it
\* was (also when it repeats a Delete(k)); Delete(k) of a present key
\* returns true and makes the size one less; a Get(k) that directly follows
\* a Delete(k) returns found = false, and so does any later one with no
\* Set(k) in between: a key that is absent stays absent under every access
\* but a Set of it, and Get reports found exactly for the keys present.
C3_Delete ==
    /\ last.op = "Delete" =>
          IF last.key \in DOMAIN last.pre
          THEN /\ last.res.removed
               /\ SizeResult(data).size = SizeResult(last.pre).size - 1
          ELSE /\ ~last.res.removed
               /\ data = last.pre
    /\ prev.op = "Delete" /\ last.op = "Delete" /\ SameKey =>
          ~last.res.removed /\ data = last.pre
    /\ prev.op = "Delete" /\ last.op = "Get" /\ SameKey => ~last.res.found
    /\ last.op = "Delete" => last.key \notin DOMAIN data
    /\ last.op = "Get" => last.res.found = (last.key \in DOMAIN last.pre)
    /\ last.op # "none" =>
          \A k \in (DOMAIN data) \ (DOMAIN last.pre) :
              last.op = "Set" /\ last.key = k

C3_Witness ==
    /\ prev.op = "Delete"
    /\ prev.res.removed
    /\ last.op = "Get"
    /\ SameKey
    /\ ~last.res.found

\* C4: with no mutation between the two calls, Size() equals the length of
\* the sequence Keys() returns: for the two made one directly after the
\* other, in either order, and for any the store could return in the
\* current state.
C4_SizeIsLenKeys ==
    /\ prev.op = "Keys" /\ last.op = "Size" =>
          last.res.size = Len(prev.res.keys)
    /\ prev.op = "Size" /\ last.op = "Keys" =>
          Len(last.res.keys) = prev.res.size
    /\ \A s \in KeysSeqs(data) : Len(s) = SizeResult(data).size

C4_Witness ==
    /\ prev.op = "Keys"
    /\ last.op = "Size"
    /\ last.res.size > 0
    /\ \E t \in Procs : \E u \in Procs \ {t} : InCritical(t) /\ InCritical(u)

\* C5: once Clear has run the map is empty; a Size() that directly follows
\* a Clear returns 0 and an Exists(k) that directly follows it returns
\* false, for every k, the keys present before the Clear included; and an
\* empty map stays empty under every access but a Set, so the same holds
\* for any later Size and Exists with no Set in between.
C5_Clear ==
    /\ last.op = "Clear" => SizeResult(data).size = 0
    /\ prev.op = "Clear" /\ last.op = "Size" => last.res.size = 0
    /\ prev.op = "Clear" /\ last.op = "Exists" => ~last.res.exists
    /\ last.op \notin {"none", "Set"} /\ last.pre = EmptyMap =>
          /\ data = EmptyMap
          /\ last.op = "Size" => last.res.size = 0
          /\ last.op = "Exists" => ~last.res.exists

C5_Witness ==
    /\ prev.op = "Clear"
    /\ last.op = "Exists"
    /\ last.key \in DOMAIN prev.pre
    /\ ~last.res.exists

\* C6: a successful Set on a key that is present leaves the size as it was
\* and the key mapped to the new value (so after Set(k, v1), Set(k, v2) the
\* size is that after the first Set); a Get(k) that directly follows it
\* returns (v2, true).
C6_Overwrite ==
    /\ last.op = "Set" /\ ~last.res.err /\ last.key \in DOMAIN last.pre =>
          /\ SizeResult(data).size = SizeResult(last.pre).size
          /\ GetResult(data, last.key) = [value |-> last.value, found |-> TRUE]
    /\ PrevSetOk /\ last.op = "Set" /\ ~last.res.err /\ SameKey =>
          SizeResult(data).size = SizeResult(last.pre).size
    /\ PrevSetOk /\ prev.key \in DOMAIN prev.pre /\ last.op = "Get" /\ SameKey =>
          last.res = [value |-> prev.value, found |-> TRUE]

C6_Witness ==
    /\ PrevSetOk
    /\ prev.key \in DOMAIN prev.pre
    /\ prev.pre[prev.key] # prev.value
    /\ last.op = "Get"
    /\ SameKey
    /\ last.res.value = prev.value
    /\ SizeResult(data).size = SizeResult(prev.pre).size

\* C7: when the goroutines of TestConcurrentWrites have all finished, the
\* size is NumGoroutines * WritesPerGoroutine and every key holds the value
\* its writer set; the process never crashes on the way.
C7_ConcurrentWrites ==
    /\ ~crashed
    /\ WritersDone =>
          /\ SizeResult(data).size = NumGoroutines * WritesPerGoroutine
          /\ \A t \in Goroutines, j \in 0..(WritesPerGoroutine - 1) :
                GetResult(data, WriterKey(t, j)) =
                    [value |-> WriterValue(t, j), found |-> TRUE]

C7_Witness ==
    /\ WritersDone
    /\ SizeResult(data).size = NumGoroutines * WritesPerGoroutine

\* C8: a Get that reports found = true returns a value that some Set wrote
\* to that key, also while Sets are in progress.
C8_NoTornRead ==
    last.op = "Get" /\ last.res.found =>
        <<last.key, last.res.value>> \in written

C8_Witness ==
    /\ last.op = "Get"
    /\ last.res.found
    /\ \E u \in Procs :
          /\ pc[u] \in {"Lock", "LockWait"}
          /\ call[u].op = "Set"
          /\ call[u].key = last.key
          /\ call[u].value # last.res.value

\* C9: the accesses, in the order the lock admits them (each between its
\* call and its return), are a run of the sequential map specification:
\* every result is the specification's and the map is the specification's.
C9_Linearizable ==
    /\ ~crashed
    /\ data = abs
    /\ last.op # "none" => Conforms(last.res, last.spec)

C9_Witness ==
    /\ last.op \in {"Get", "Exists", "Keys", "Size"}
    /\ prev.op \in Mutators
    /\ \E t \in Procs, u \in Procs :
          /\ pc[t] = "unlock"
          /\ pc[u] = "LockWait"
          /\ call[u].op \in Mutators

\* C10: as long as a goroutine holds the slice a Keys() returned to it, no
\* step of any goroutine (Set, Delete and Clear included) changes the
\* contents of that slice.
C10_KeysIsCopy ==
    [][\A t \in Procs :
          "keys" \in DOMAIN ret[t] /\ ret'[t] = ret[t] =>
              SubSeq(arrays'[ret[t].keys.ptr], 1, ret[t].keys.len) =
                  SliceValue(ret[t].keys)]_vars

\* The holder itself is in a later call that has changed the map.
C10_Witness ==
    \E t \in Procs :
        /\ pc[t] = "unlock"
        /\ call[t].op \in Mutators
        /\ last.op = call[t].op
        /\ "keys" \in DOMAIN ret[t]
        /\ SliceValue(ret[t].keys) # <<>>
        /\ Range(SliceValue(ret[t].keys)) # DOMAIN data

\* C11: the sequence a Keys() returns lists the keys the map held at the
\* instant of its access, which lies between the call and the return:
\* every one of them exactly once and no other key, also while Set, Delete
\* and Clear calls are in progress.
C11_KeysSnapshot ==
    /\ last.op = "Keys" => ListsExactly(last.res.keys, DOMAIN last.pre)
    /\ \A t \in Procs :
          pc[t] = "unlock" /\ call[t].op = "Keys" =>
              ListsExactly(SliceValue(ret[t].keys), DOMAIN data)

C11_Witness ==
    /\ last.op = "Keys"
    /\ Len(last.res.keys) = 2
    /\ prev.op \in Mutators
    /\ \E t \in Procs, u \in Procs :
          /\ pc[t] = "unlock"
          /\ call[t].op = "Keys"
          /\ pc[u] = "LockWait"
          /\ call[u].op \in {"Delete", "Clear"}

\* Some goroutine is inside a call.
InProgress == \E t \in Procs : pc[t] # "idle"

\* Whenever calls are in progress, one of them can take a step.
NoDeadlock ==
    InProgress => \E t \in Procs : ENABLED (Step(t) \/ Lock(t))

\* C12, as claimed: under a fair scheduler every call that has started
\* gets the lock it waits for and returns, and no deadlock is reachable.
C12_NoCallBlocksForever ==
    /\ []NoDeadlock
    /\ \A t \in LiveCallers :
          /\ (pc[t] \in {"Lock", "LockWait", "RLockWait"}) ~> InCritical(t)
          /\ (pc[t] # "idle") ~> (pc[t] = "idle")

\* C12, amended: no deadlock is reachable; under a fair scheduler every
\* call of a method that takes the exclusive lock gets it and returns,
\* every call that holds the lock returns, and a reader parked behind a
\* writer is woken by an Unlock and then either gets the lock or is parked
\* again, a later reader having entered in its place.
C12_Progress ==
    /\ []NoDeadlock
    /\ \A t \in LiveCallers :
          /\ (pc[t] # "idle" /\ call[t].op \in Mutators) ~> (pc[t] = "idle")
          /\ InCritical(t) ~> (pc[t] = "idle")
          /\ (pc[t] = "RLockWait") ~> (t \in mu.readers)
          /\ (pc[t] = "RLockWait" /\ t \in mu.readers) ~>
                 (InCritical(t) \/ t \in mu.rwait)

C12_Witness ==
    \E t \in Procs, u \in Procs, w \in Procs :
        /\ pc[t] = "RLockWait"
        /\ t \in mu.rwait
        /\ pc[w] = "LockWait"
        /\ pc[u] = "crit"
        /\ call[u].op = "Get"
        /\ last.op = "Set"

\* C13: in every reachable state the empty string is not a key of the map,
\* and no Set that got past the key check carries it; failed Sets and
\* accesses with the empty key change nothing about that.
C13_NoEmptyKey ==
    /\ "" \notin DOMAIN data
    /\ \A t \in Procs : call[t].op = "Set" => call[t].key # ""

C13_Witness ==
    /\ prev.op = "Set"
    /\ prev.key = ""
    /\ prev.res.err
    /\ last.op = "Exists"
    /\ last.key = ""
    /\ ~last.res.exists
    /\ data # EmptyMap

\* C14: Get, Exists, Keys and Size leave the map as it was: the map after
\* the access of a read-only call is the map before it, whatever the key
\* (present, absent or empty), and no access made before the call returns
\* changes it either.
C14_ReadOnlyFrame ==
    /\ last.op \in ReadOnly => data = last.pre
    /\ \A t \in Procs :
          pc[t] = "unlock" /\ call[t].op \in ReadOnly => data = last.pre

C14_Witness ==
    /\ prev.op = "Get"
    /\ prev.key \notin DOMAIN prev.pre
    /\ prev.key # ""
    /\ last.op = "Get"
    /\ last.key = ""
    /\ data # EmptyMap
    /\ data = prev.pre

\* C15: the store fails in one case only, Set with the empty key.  Set
\* returns an error exactly when its key is empty, whatever the value; Get,
\* Delete, Exists, Keys, Clear and Size return no error for any argument,
\* the empty key included: an absent key shows as found = false, exists =
\* false, removed = false; and the process never aborts.
C15_OnlySetFails ==
    /\ ~crashed
    /\ last.op = "Set" => last.res = [err |-> last.key = ""]
    /\ last.op = "Get" =>
          /\ DOMAIN last.res = {"value", "found"}
          /\ last.res.found = (last.key \in DOMAIN last.pre)
    /\ last.op = "Delete" =>
          /\ DOMAIN last.res = {"removed"}
          /\ last.res.removed = (last.key \in DOMAIN last.pre)
    /\ last.op = "Exists" =>
          /\ DOMAIN last.res = {"exists"}
          /\ last.res.exists = (last.key \in DOMAIN last.pre)
    /\ last.op \in {"Keys", "Clear", "Size"} => "err" \notin DOMAIN last.res

C15_Witness ==
    /\ PrevSetOk
    /\ prev.key # ""
    /\ prev.value = ""
    /\ last.op = "Delete"
    /\ last.key = ""
    /\ ~last.res.removed

\* The goroutines between the lock and the unlock of a call of a method
\* in S.
Inside(S) == {t \in Procs : InCritical(t) /\ call[t].op \in S}

\* C16: in every reachable state at most one goroutine is inside the
\* critical section of Set, Delete or Clear, and while one is, none is
\* inside that of Get, Exists, Keys or Size; readers may be inside together.
C16_LockExclusion ==
    /\ Cardinality(Inside(Mutators)) <= 1
    /\ Inside(Mutators) # {} => Inside(ReadOnly) = {}

C16_Witness ==
    /\ Cardinality(Inside(ReadOnly)) >= 2
    /\ prev.op \in Mutators
    /\ last.op \in ReadOnly

\* Goroutine t holds the lock in exclusive mode: it is the writer, there
\* is no reader, and no other goroutine is inside a critical section.
HoldsExclusive(t) ==
    /\ mu.writer = t
    /\ mu.readers = {}
    /\ InCritical(t)
    /\ \A u \in Procs \ {t} : ~InCritical(u)

\* A step in which t returns from a Set that failed its key check.
FailedSetBy(t) ==
    \E k \in LockKeys : Set(t, k, LockValue) /\ pc'[t] = "idle"

\* A step in which t returns from a call that passed s.mu.Lock().
LockedReturnBy(t) ==
    pc[t] = "unlock" /\ call[t].op \in Mutators /\ pc'[t] = "idle"

\* While a goroutine is between the lock and the unlock of a call of Set,
\* Delete or Clear, it holds the lock in exclusive mode.
ExclusiveInside ==
    \A t \in Procs : InCritical(t) /\ call[t].op \in Mutators => HoldsExclusive(t)

\* C17, as claimed: every call of Set, Delete and Clear, whatever its
\* arguments, acquires the lock in exclusive mode and holds it, excluding
\* all readers and writers, until it returns: whenever such a call returns,
\* its goroutine holds the lock exclusively.
C17_EveryCallExclusive ==
    /\ []ExclusiveInside
    /\ [][\A t \in Procs :
             FailedSetBy(t) \/ LockedReturnBy(t) => HoldsExclusive(t)]_vars

\* C17, amended: every call of Delete and Clear and every call of Set with
\* a non-empty key acquires the lock in exclusive mode and holds it,
\* excluding all readers and writers, until it returns; a Set with the
\* empty key returns its error without touching the lock or the map.
C17_CheckedCallExclusive ==
    /\ []ExclusiveInside
    /\ [][\A t \in Procs :
             /\ LockedReturnBy(t) => HoldsExclusive(t)
             /\ FailedSetBy(t) => mu' = mu /\ data' = data /\ ~HoldsExclusive(t)]_vars

C17_Witness ==
    /\ last.op = "Set"
    /\ last.key = ""
    /\ last.res.err
    /\ \E u \in Procs :
          /\ pc[u] = "unlock"
          /\ call[u].op \in Mutators
          /\ HoldsExclusive(u)
    /\ \E u \in Procs : pc[u] = "RLockWait"

\* C18: a goroutine that is not inside a call holds the lock in no mode and
\* waits for it in none, whichever way its last call returned (the failed
\* Set included); when no call is in progress the mutex is as NewStore left
\* it.
C18_LockReleased ==
    /\ \A t \in Procs :
          pc[t] = "idle" =>
              mu.writer # t /\ t \notin mu.readers /\ t \notin mu.rwait
    /\ ~InProgress => mu = NewStore.mu

C18_Witness ==
    /\ ~InProgress
    /\ last.op = "Set"
    /\ last.res.err
    /\ prev.op \in ReadOnly
    /\ data # EmptyMap
    /\ mu = NewStore.mu

\* C19: while the writers of TestConcurrentReadWrite set the same NumOps
\* keys and the readers get them, the size is between 0 and NumOps in every
\* state and the process does not abort; once every writer has finished,
\* each of the NumOps keys is present with the value one of the writers
\* set for it.
C19_ConcurrentReadWrite ==
    /\ ~crashed
    /\ SizeResult(data).size \in 0..NumOps
    /\ WritersFinished =>
          \A j \in 0..(NumOps - 1) :
              \E w \in Writers :
                  GetResult(data, RWKey(j)) =
                      [value |-> RWValue(WriterId(w), j), found |-> TRUE]

C19_Witness ==
    /\ WritersFinished
    /\ SizeResult(data).size = NumOps
    /\ \E j \in 0..(NumOps - 1) :
          {<<RWKey(j), RWValue(0, j)>>, <<RWKey(j), RWValue(1, j)>>}
              \subseteq written
    /\ \E t \in Readers : pc[t] = "crit"

\* Key j is present in map e exactly if it is in map d, with the same value.
SameEntry(d, e, j) ==
    /\ (j \in DOMAIN d) = (j \in DOMAIN e)
    /\ j \in DOMAIN d => d[j] = e[j]

\* C20: a successful Set(k, v) and a Delete(k) leave every key but k as it
\* was, present or absent and with its value; the size grows by one when
\* Set inserts an absent key, shrinks by one when Delete removes a present
\* key, and stays otherwise.
C20_SingleKeyFrame ==
    (last.op = "Set" /\ ~last.res.err) \/ last.op = "Delete" =>
        /\ \A j \in ((DOMAIN data) \cup (DOMAIN last.pre)) \ {last.key} :
              SameEntry(last.pre, data, j)
        /\ SizeResult(data).size - SizeResult(last.pre).size =
              IF last.op = "Set" /\ last.key \notin DOMAIN last.pre THEN 1
              ELSE IF last.op = "Delete" /\ last.key \in DOMAIN last.pre THEN -1
              ELSE 0

C20_Witness ==
    /\ PrevSetOk
    /\ prev.key \notin DOMAIN prev.pre
    /\ prev.pre # EmptyMap
    /\ last.op = "Delete"
    /\ last.key \in DOMAIN last.pre
    /\ last.key # prev.key
    /\ data = [j \in {prev.key} |-> prev.value]

====
